---- MODULE Spec2Model ----
(***************************************************************************)
(* IPPAN fairness-model tooling: the promotion tool                        *)
(* (ai_training/promote_fairness_model.py) and, from the two trainers      *)
(* (ai_training/train_ippan_d_gbdt*.py), the tree quantizer, the model     *)
(* assembler, the canonical hasher and the deterministic split.            *)
(*                                                                         *)
(* Text is modelled as a sequence of tokens (strings).  A path is the      *)
(* token sequence of its segments and separators; the bytes of a JSON file *)
(* are its punctuation, literal and whitespace tokens; a hex digest is a   *)
(* case marker followed by the bytes that were hashed, i.e. BLAKE3 is      *)
(* taken to be injective.  A config file is a sequence of lines, each line *)
(* a record [kind, key, val].                                              *)
(***************************************************************************)
EXTENDS Integers, Sequences, FiniteSets, TLC

\* Largest number of lines in the body of the [dgbdt.model] section.
MaxBody == 2

(***************************************************************************)
(* Strings                                                                 *)
(***************************************************************************)

\* str.startswith(prefix)
StartsWith(s, prefix) ==
    Len(prefix) <= Len(s) /\ SubSeq(s, 1, Len(prefix)) = prefix

\* str.replace("\\", "/")
ReplaceBackslash(s) == [i \in DOMAIN s |-> IF s[i] = "\\" THEN "/" ELSE s[i]]

\* str.lower(): the only tokens of the model that carry upper-case letters
\* are the case marker of a digest written in upper-case hex.
LowerToken(t) == IF t = "BLAKE3:" THEN "blake3:" ELSE t
Lower(s) == [i \in DOMAIN s |-> LowerToken(s[i])]

\* A digest as somebody may have typed it into the config: upper-case hex.
UpperHex(d) == <<"BLAKE3:">> \o Tail(d)

\* Python's None where a string is expected.
None == <<"<None>">>

(***************************************************************************)
(* BLAKE3 and the JSON model file                                          *)
(***************************************************************************)

\* blake3(data).hexdigest(): lower-case hex; injective on the data.
Blake3Hex(data) == <<"blake3:">> \o data

\* A JSON value as json.load returns it: an int, a str, None, a list or a
\* dict, the dict as the function from its keys to their values.
JInt(n) == [int |-> n]
JStr(x) == [str |-> x]
JNull == [null |-> TRUE]
JArr(a) == [arr |-> a]
JObj(f) == [obj |-> f]

\* The keys of the documents in lexicographic order (the order sort_keys=True
\* produces), and in the opposite order.
KeyOrder ==
    <<"avg_latency_ms", "bias", "feature_idx", "feature_scale", "features",
      "id", "leaf", "left", "lightgbm_format_version", "missed_blocks_7d",
      "nodes", "note", "peer_reports_quality", "post_scale", "right",
      "scale", "slashing_events_90d", "stake_normalized", "target",
      "threshold", "trees", "uptime_ratio_7d", "validated_blocks_7d",
      "version", "weight">>
Reverse(s) == [i \in DOMAIN s |-> s[Len(s) + 1 - i]]

\* A slip: bias is left out of the hashed fields.
HashedKeysNoBias == {"post_scale", "scale", "trees", "version"}

\* The five fields of the Rust Model struct.
HashedKeys == {"bias", "post_scale", "scale", "trees", "version"}

\* The token of a string literal, and the string and integer literals the
\* lexer knows.
Quote(x) == "\"" \o x \o "\""
JsonStrings ==
    {KeyOrder[i] : i \in DOMAIN KeyOrder}
        \cup {"f", "g", "y", "4", "v4", "unknown", "fairness_score_scaled"}
QuotedStrings == {Quote(x) : x \in JsonStrings}
JsonInts ==
    (-16..16) \cup {100000, 100001, 500000, 500001, 900000, 1000000}
IsStringToken(tok) == tok \in QuotedStrings
UnquoteTable ==
    [tok \in QuotedStrings |-> CHOOSE x \in JsonStrings : Quote(x) = tok]
Unquote(tok) == UnquoteTable[tok]
IntTable ==
    [tok \in {ToString(n) : n \in JsonInts} |->
         CHOOSE n \in JsonInts : ToString(n) = tok]
IntOf(tok) == IntTable[tok]

\* The encoder of json.dumps: the items of a dict in the given key order,
\* "," and ":" followed by a blank when spaced (the default separators).
RECURSIVE Serialize(_, _, _)
RECURSIVE DumpItems(_, _, _, _)
RECURSIVE DumpElements(_, _, _)
DumpItems(f, keys, order, spaced) ==
    IF keys = <<>> THEN <<>>
    ELSE LET k == Head(keys)
             colon == IF spaced THEN <<":", " ">> ELSE <<":">>
             comma == IF Len(keys) = 1 THEN <<>>
                      ELSE IF spaced THEN <<",", " ">> ELSE <<",">>
         IN  <<Quote(k)>> \o colon \o Serialize(f[k], order, spaced) \o comma
                 \o DumpItems(f, Tail(keys), order, spaced)
DumpElements(a, order, spaced) ==
    IF a = <<>> THEN <<>>
    ELSE LET comma == IF Len(a) = 1 THEN <<>>
                      ELSE IF spaced THEN <<",", " ">> ELSE <<",">>
         IN  Serialize(Head(a), order, spaced) \o comma
                 \o DumpElements(Tail(a), order, spaced)
Serialize(v, order, spaced) ==
    IF "int" \in DOMAIN v THEN <<ToString(v.int)>>
    ELSE IF "str" \in DOMAIN v THEN <<Quote(v.str)>>
    ELSE IF "null" \in DOMAIN v THEN <<"null">>
    ELSE IF "arr" \in DOMAIN v
    THEN <<"[">> \o DumpElements(v.arr, order, spaced) \o <<"]">>
    ELSE <<"{">>
         \o DumpItems(v.obj, SelectSeq(order, LAMBDA k : k \in DOMAIN v.obj),
                      order, spaced)
         \o <<"}">>

\* json.dumps(doc, sort_keys=True, separators=(",", ":")) when spaced is
\* FALSE; json.dumps(doc, sort_keys=True) with the default separators
\* (", ", ": ") when it is TRUE.
JsonDumps(doc, spaced) == Serialize(doc, KeyOrder, spaced)

\* The decoder of json.load on the tokens of a JSON text without
\* whitespace; each operator returns the value read and the tokens left.
\* A key that occurs twice keeps its last value.
RECURSIVE ParseValue(_)
RECURSIVE ParseMembers(_, _)
RECURSIVE ParseElements(_, _)
ParseMembers(toks, acc) ==
    LET k == Unquote(toks[1])
        pv == ParseValue(SubSeq(toks, 3, Len(toks)))
        acc2 == [x \in DOMAIN acc \cup {k} |->
                     IF x = k THEN pv.val ELSE acc[x]]
    IN  IF Head(pv.rest) = "," THEN ParseMembers(Tail(pv.rest), acc2)
        ELSE [val |-> JObj(acc2), rest |-> Tail(pv.rest)]
ParseElements(toks, acc) ==
    LET pv == ParseValue(toks)
        acc2 == Append(acc, pv.val)
    IN  IF Head(pv.rest) = "," THEN ParseElements(Tail(pv.rest), acc2)
        ELSE [val |-> JArr(acc2), rest |-> Tail(pv.rest)]
ParseValue(toks) ==
    LET h == Head(toks)
        r == Tail(toks)
    IN  IF h = "{"
        THEN IF Head(r) = "}" THEN [val |-> JObj(<<>>), rest |-> Tail(r)]
             ELSE ParseMembers(r, <<>>)
        ELSE IF h = "["
        THEN IF Head(r) = "]" THEN [val |-> JArr(<<>>), rest |-> Tail(r)]
             ELSE ParseElements(r, <<>>)
        ELSE IF h = "null" THEN [val |-> JNull, rest |-> r]
        ELSE IF IsStringToken(h) THEN [val |-> JStr(Unquote(h)), rest |-> r]
        ELSE [val |-> JInt(IntOf(h)), rest |-> r]

\* json.load: whitespace between tokens is insignificant.
JsonLoad(bytes) == ParseValue(SelectSeq(bytes, LAMBDA t : t # " ")).val

\* promote_fairness_model.compute_blake3_hash: the digest of the file's bytes.
compute_blake3_hash(bytes) == Blake3Hex(bytes)

\* What a KeyError leaves where a digest was expected.
KeyError == <<"<KeyError>">>

\* A slip: the whole document is hashed, metadata included.
HashWholeDocument(bytes) == Blake3Hex(JsonDumps(JsonLoad(bytes), FALSE))

\* A slip: the fields the document has are hashed, the others left out.
HashPresentFields(bytes) ==
    LET full_model == JsonLoad(bytes).obj
        canonical_model ==
            [k \in HashedKeys \cap DOMAIN full_model |-> full_model[k]]
    IN  Blake3Hex(JsonDumps(JObj(canonical_model), FALSE))

\* train_ippan_d_gbdt_devnet._compute_model_hash_b3: the digest of the
\* canonical JSON of the five hashed fields; full_model[k] raises KeyError
\* for a field the document lacks.
compute_model_hash_b3(bytes) ==
    LET full_model == JsonLoad(bytes).obj
    IN  IF ~(HashedKeys \subseteq DOMAIN full_model) THEN KeyError
        ELSE LET canonical_model == [k \in HashedKeys |-> full_model[k]]
             IN  Blake3Hex(JsonDumps(JObj(canonical_model), FALSE))

\* A model of one tree of one leaf (0.1), as the trainers export it.
OneLeafTree ==
    JObj([nodes |-> JArr(<<JObj([feature_idx |-> JInt(-1), id |-> JInt(0),
                                 leaf |-> JInt(100000), left |-> JInt(-1),
                                 right |-> JInt(-1), threshold |-> JInt(0)])>>),
          weight |-> JInt(1000000)])

\* Model documents: the five hashed fields, and the same with metadata the
\* trainers add.
CoreDoc ==
    JObj([bias |-> JInt(0), post_scale |-> JInt(1000000),
          scale |-> JInt(1000000), trees |-> JArr(<<OneLeafTree>>),
          version |-> JInt(1)])
ExportDoc ==
    JObj([bias |-> JInt(0), post_scale |-> JInt(1000000),
          scale |-> JInt(1000000), trees |-> JArr(<<OneLeafTree>>),
          version |-> JInt(1), features |-> JArr(<<JStr("f")>>)])

\* Candidate files: the five fields in canonical form; what the trainers write
\* (json.dump(export, f, sort_keys=True, separators=(",", ":"))); and the
\* five fields written with the default separators.
CoreFile == JsonDumps(CoreDoc, FALSE)
ExportFile == JsonDumps(ExportDoc, FALSE)
SpacedFile == JsonDumps(CoreDoc, TRUE)
CandidateFiles == {CoreFile, ExportFile, SpacedFile}

\* A digest of some model that is not a candidate.
OldDigest == Blake3Hex(<<"old">>)

(***************************************************************************)
(* The config file (config/dlc.toml) as lines                              *)
(*   header   [kind |-> "hdr", key |-> "",  val |-> section name]          *)
(*   key line [kind |-> "kv",  key |-> k,   val |-> the quoted value]      *)
(*   comment  [kind |-> "cmt", key |-> k,   val |-> v]: "# k = "v"" when k *)
(*            is a key (a commented-out assignment), else the text v.      *)
(* A section name is the sequence of its dotted parts, so a prefix of the  *)
(* parts is a prefix of the name's characters.                             *)
(***************************************************************************)
Hdr(name) == [kind |-> "hdr", key |-> "", val |-> name]
KV(k, v) == [kind |-> "kv", key |-> k, val |-> v]
Cmt(k, v) == [kind |-> "cmt", key |-> k, val |-> v]

SectionName == <<"dgbdt", ".model">>

\* re: ^\s*\[.*\]\s*$
section_pattern(line) == line.kind = "hdr"

\* re: ^\s*\[<section_name>\]\s*$
start_pattern(line, section_name) ==
    line.kind = "hdr" /\ line.val = section_name

\* line.strip().startswith(f"[{section_name}")
StartsWithSection(line, section_name) ==
    line.kind = "hdr" /\ StartsWith(line.val, section_name)

\* 'hash_b3' in line
ContainsHashB3(line) ==
    \/ line.key = "hash_b3"
    \/ \E i \in DOMAIN line.val : line.val[i] = "was hash_b3"

\* re: ^\s*<key>\s*=
KeyPattern(line, k) == line.kind = "kv" /\ line.key = k

\* re.search: <key>\s*=\s*"([^"]+)" anywhere in the line, so a commented-out
\* assignment matches as well; the value must not be empty.
HashPattern(line, k) ==
    line.kind \in {"kv", "cmt"} /\ line.key = k /\ line.val # <<>>

\* Python slice lines[a:b] with 0-based a and exclusive b.
Slice(lines, a, b) == SubSeq(lines, a + 1, b)

\* find_section_bounds: 0-based start, exclusive end; found = FALSE is None.
find_section_bounds(lines, section_name) ==
    LET starts == {i \in 0..(Len(lines) - 1) :
                       start_pattern(lines[i + 1], section_name)}
    IN  IF starts = {} THEN [found |-> FALSE, start |-> 0, end |-> 0]
        ELSE LET start_idx == CHOOSE i \in starts : \A j \in starts : i <= j
                 ends == {i \in (start_idx + 1)..(Len(lines) - 1) :
                              /\ section_pattern(lines[i + 1])
                              /\ ~StartsWithSection(lines[i + 1], section_name)}
                 end_idx == IF ends = {} THEN Len(lines)
                            ELSE CHOOSE i \in ends : \A j \in ends : i <= j
             IN  [found |-> TRUE, start |-> start_idx, end |-> end_idx]

\* extract_hash_from_config: the value of the first line of the section that
\* matches expected_hash = "..." or hash_b3 = "...".
extract_hash_from_config(lines) ==
    LET bounds == find_section_bounds(lines, SectionName)
        section_lines == Slice(lines, bounds.start, bounds.end)
        hits == {i \in DOMAIN section_lines :
                     \/ HashPattern(section_lines[i], "expected_hash")
                     \/ HashPattern(section_lines[i], "hash_b3")}
    IN  IF ~bounds.found \/ hits = {} THEN None
        ELSE section_lines[CHOOSE i \in hits : \A j \in hits : i <= j].val

\* list.insert(1, x) on a list that has at least one element.
Insert1(list, x) == <<Head(list), x>> \o Tail(list)

\* update_config_section, lines 104-145: found = FALSE is the ValueError;
\* otherwise new_lines is what the file is to hold.
update_config_section(lines, model_path, new_hash) ==
    LET bounds == find_section_bounds(lines, SectionName)
        start == bounds.start
        end == bounds.end
        section_lines == Slice(lines, start, end)
        hash_key == IF \E i \in DOMAIN section_lines :
                           ContainsHashB3(section_lines[i])
                    THEN "hash_b3" ELSE "expected_hash"
        rewritten == [i \in DOMAIN section_lines |->
                         IF KeyPattern(section_lines[i], "path")
                         THEN KV("path", model_path)
                         ELSE IF KeyPattern(section_lines[i], hash_key)
                         THEN KV(hash_key, new_hash)
                         ELSE section_lines[i]]
        path_updated == \E i \in DOMAIN section_lines :
                            KeyPattern(section_lines[i], "path")
        hash_updated == \E i \in DOMAIN section_lines :
                            /\ ~KeyPattern(section_lines[i], "path")
                            /\ KeyPattern(section_lines[i], hash_key)
        with_path == IF path_updated THEN rewritten
                     ELSE Insert1(rewritten, KV("path", model_path))
        updated_section == IF hash_updated THEN with_path
                           ELSE Append(with_path, KV(hash_key, new_hash))
    IN  IF ~bounds.found THEN [found |-> FALSE, new_lines |-> <<>>]
        ELSE [found |-> TRUE,
              new_lines |-> Slice(lines, 0, start) \o updated_section
                                \o Slice(lines, end, Len(lines))]

(***************************************************************************)
(* Paths and the file system                                               *)
(* A file or directory is identified by the sequence of the components of  *)
(* its path with ".." resolved; a component is a token sequence.           *)
(***************************************************************************)

\* The separators pathlib splits a path at: PurePosixPath, PureWindowsPath.
Seps(os) == IF os = "nt" THEN {"/", "\\"} ELSE {"/"}

RECURSIVE SplitAt(_, _)
SplitAt(s, seps) ==
    IF s = <<>> THEN << <<>> >>
    ELSE LET rest == SplitAt(Tail(s), seps)
         IN  IF Head(s) \in seps THEN << <<>> >> \o rest
             ELSE << <<Head(s)>> \o Head(rest) >> \o Tail(rest)

\* Path(s).parts: the non-empty components.
PathParts(s, os) == SelectSeq(SplitAt(s, Seps(os)), LAMBDA c : c # <<>>)

\* Path.parent: the path without its last component.
Parent(parts) == IF parts = <<>> THEN <<>> ELSE SubSeq(parts, 1, Len(parts) - 1)

\* What the operating system makes of ".." components when it walks a path.
RECURSIVE Resolve(_)
Resolve(parts) ==
    IF parts = <<>> THEN <<>>
    ELSE LET before == Resolve(Parent(parts))
             last == parts[Len(parts)]
         IN  IF last = <<"..">> THEN Parent(before) ELSE Append(before, last)

\* The file a path names.
FsKey(s, os) == Resolve(PathParts(s, os))

\* Path.mkdir(parents=True, exist_ok=True): the directory and every missing
\* ancestor; the working directory (no components) exists.
Mkdir(ds, parts) == ds \cup {Resolve(SubSeq(parts, 1, k)) : k \in 1..Len(parts)}

\* shutil.copy2(src, dst): dst holds the bytes of src.
Copy2(fs, src, dst) ==
    [k \in DOMAIN fs \cup {dst} |-> IF k = dst THEN fs[src] ELSE fs[k]]

\* shutil.copy2(src, dst) that raises OSError on the way (disk full): dst
\* exists and holds only the beginning of src.
Copy2Partial(fs, src, dst) ==
    [k \in DOMAIN fs \cup {dst} |->
         IF k = dst THEN SubSeq(fs[src], 1, 1) ELSE fs[k]]

\* "crates/ai_registry/models/"
ModelsPrefix == <<"crates", "/", "ai_registry", "/", "models", "/">>
ModelsDir == << <<"crates">>, <<"ai_registry">>, <<"models">> >>

\* --runtime-dest: under the models directory (with either separator),
\* outside it, and starting with the prefix but leaving it through "..".
GoodDest == ModelsPrefix \o <<"m.json">>
BackslashDest ==
    <<"crates", "\\", "ai_registry", "\\", "models", "\\", "m.json">>
OutsideDest == <<"tmp", "/", "m.json">>
DotDotDest == ModelsPrefix \o <<"..", "/", "evil.json">>
RuntimeDests == {GoodDest, BackslashDest, OutsideDest, DotDotDest}

\* --model: the three candidate files, and a path that names no file.
ModelPath(name) == <<"ai_training", "/", name>>
MissingModel == ModelPath("missing.json")
ModelArgs == {ModelPath("core.json"), ModelPath("export.json"),
              ModelPath("spaced.json"), MissingModel}

\* The model files on disk before the run.
FilesBefore ==
    LET core == << <<"ai_training">>, <<"core.json">> >>
        export == << <<"ai_training">>, <<"export.json">> >>
        spaced == << <<"ai_training">>, <<"spaced.json">> >>
    IN  [k \in {core, export, spaced} |->
            IF k = core THEN CoreFile
            ELSE IF k = export THEN ExportFile ELSE SpacedFile]

\* The directories before the run: a checkout with or without the models
\* directory.
BaseDirs == {<<>>, << <<"ai_training">> >>, << <<"config">> >>}
DirsBefore == {BaseDirs, Mkdir(BaseDirs, ModelsDir)}

(***************************************************************************)
(* Config files before the run                                             *)
(***************************************************************************)
OldPath == ModelsPrefix \o <<"old.json">>

\* The digests a pin may hold: the file digest of the canonical candidate in
\* lower and in upper case, and the digest of another model.
PinnedDigests ==
    {compute_blake3_hash(CoreFile), UpperHex(compute_blake3_hash(CoreFile)),
     OldDigest}

\* The lines the body of [dgbdt.model] is made of.
BodyLines ==
    {KV("path", OldPath), KV("format", <<"json">>),
     Cmt("", <<"note">>), Cmt("", <<"was hash_b3">>),
     Cmt("expected_hash", OldDigest)}
    \cup {KV("expected_hash", d) : d \in PinnedDigests}
    \cup {KV("hash_b3", compute_blake3_hash(CoreFile))}

\* TOML allows a key once per table.
NoDuplicateKey(body) ==
    \A i, j \in DOMAIN body :
        (i # j /\ body[i].kind = "kv" /\ body[j].kind = "kv")
            => body[i].key # body[j].key

Bodies ==
    {b \in UNION {[1..n -> BodyLines] : n \in 0..MaxBody} : NoDuplicateKey(b)}

\* What may follow the body: nothing, or a nested table with keys of its own.
NestedName == <<"dgbdt", ".model", ".extra">>
NestedSections ==
    {<<>>,
     <<Hdr(NestedName), KV("path", <<"keep">>),
       KV("expected_hash", OldDigest)>>}

\* An unrelated section; it ends every config.
OtherSection == <<Hdr(<<"network">>), KV("path", <<"net">>)>>

ConfigsBefore ==
    {OtherSection}
    \cup {<<Hdr(SectionName)>> \o b \o n \o OtherSection :
              b \in Bodies, n \in NestedSections}

(***************************************************************************)
(* promote_fairness_model.main as a state machine                          *)
(***************************************************************************)
VARIABLES
    args,          \* the parsed command line
    os,            \* "posix" or "nt": how pathlib reads --runtime-dest
    files,         \* the model files on disk: file |-> bytes
    dirs,          \* the directories on disk
    config_file,   \* args.config on disk: [exists, lines]
    pc,            \* where main is
    exit_code,     \* the process's exit status; -1 while it runs
    new_hash,      \* main's new_hash
    current_hash,  \* main's current_hash
    new_content,   \* update_config_section's new_content
    before,        \* the disk when the run began: [files, dirs, config_file]
    tree,          \* the tree_structure handed to quantize_tree_structure
    quantized,     \* what that call returned: [ok, nodes]
    qpc,           \* "call" before the call, "done" after it
    documents,     \* two model documents as their authors hold them
    model_files,   \* the JSON files written from them
    model_hashes,  \* what _compute_model_hash_b3 returned for each file
    trainer,       \* which trainer runs: "train" or "devnet"
    raw,           \* model.booster_.dump_model()
    deterministic_trees,  \* main's list of the same name
    bias,          \* main's bias: <<>> until it is computed, then <<b>>
    output_file,   \* output_path on disk: [exists, bytes]
    model_hash,    \* main's model_hash (devnet trainer)
    apc,           \* where the trainer's main is
    dfs,           \* two datasets as read_csv finds them: [cols, rows]
    val_masks,     \* the val_mask of each dataset: <<>> until it is computed
    data_dir,      \* args.data_dir on disk: [exists, names]
    csv_path       \* what _pick_latest_dataset_file gave: [state, path]

promoteVars == <<args, os, files, dirs, config_file, pc, exit_code, new_hash,
                 current_hash, new_content, before>>
quantizerVars == <<tree, quantized, qpc>>
hasherVars == <<documents, model_files, model_hashes>>
\* What a run of the promotion tool leaves alone.
assemblerVars == <<trainer, raw, deterministic_trees, bias, output_file,
                   model_hash, apc>>
splitterVars == <<dfs, val_masks>>
discoveryVars == <<data_dir, csv_path>>
trainerVars ==
    <<quantizerVars, hasherVars, assemblerVars, splitterVars, discoveryVars>>
vars == <<promoteVars, trainerVars>>

\* sys.exit(code), or an exception nobody catches (code 1).
Exit(code) == pc' = "exit" /\ exit_code' = code

PromoteInit ==
    /\ args \in [model : ModelArgs, runtime_dest : RuntimeDests,
                 allow_same_hash : BOOLEAN, dry_run : BOOLEAN]
    /\ os \in {"posix", "nt"}
    /\ files = FilesBefore
    /\ dirs \in DirsBefore
    /\ config_file \in
           {[exists |-> FALSE, lines |-> <<>>]}
           \cup {[exists |-> TRUE, lines |-> c] : c \in ConfigsBefore}
    /\ pc = "validate"
    /\ exit_code = -1
    /\ new_hash = None
    /\ current_hash = None
    /\ new_content = <<>>
    /\ before = [files |-> files, dirs |-> dirs, config_file |-> config_file]

\* main's runtime_dest_str
runtime_dest_str == ReplaceBackslash(args.runtime_dest)

\* main, lines 214-233: the three validations.
Validate ==
    /\ pc = "validate"
    /\ IF FsKey(args.model, os) \notin DOMAIN files
       THEN Exit(1)
       ELSE IF ~StartsWith(runtime_dest_str, ModelsPrefix)
       THEN Exit(1)
       ELSE IF ~config_file.exists
       THEN Exit(1)
       ELSE pc' = "hash" /\ UNCHANGED exit_code
    /\ UNCHANGED <<args, os, files, dirs, config_file, new_hash, current_hash,
                   new_content, before, trainerVars>>

\* main, lines 235-238.
ComputeHash ==
    /\ pc = "hash"
    /\ new_hash' = compute_blake3_hash(files[FsKey(args.model, os)])
    /\ pc' = "guard"
    /\ UNCHANGED <<args, os, files, dirs, config_file, exit_code, current_hash,
                   new_content, before, trainerVars>>

\* main, lines 240-270: read the pin and refuse an unchanged hash.
Guard ==
    /\ pc = "guard"
    /\ current_hash' = extract_hash_from_config(config_file.lines)
    /\ IF /\ current_hash' # None
          /\ Lower(new_hash) = Lower(current_hash')
          /\ ~args.allow_same_hash
       THEN Exit(2)
       ELSE pc' = "mkdir" /\ UNCHANGED exit_code
    /\ UNCHANGED <<args, os, files, dirs, config_file, new_hash, new_content,
                   before, trainerVars>>

\* main, lines 272-274: runs in dry-run mode as well.
MakeDestDir ==
    /\ pc = "mkdir"
    /\ dirs' = Mkdir(dirs, Parent(PathParts(args.runtime_dest, os)))
    /\ pc' = "copy"
    /\ UNCHANGED <<args, os, files, config_file, exit_code, new_hash,
                   current_hash, new_content, before, trainerVars>>

\* A slip: the copy is left out.
CopySkipped ==
    /\ pc = "copy"
    /\ pc' = "update"
    /\ UNCHANGED <<args, os, files, dirs, config_file, exit_code, new_hash,
                   current_hash, new_content, before, trainerVars>>

\* main, lines 276-281.
CopyModel ==
    /\ pc = "copy"
    /\ files' = IF args.dry_run THEN files
                ELSE Copy2(files, FsKey(args.model, os),
                           FsKey(args.runtime_dest, os))
    /\ pc' = "update"
    /\ UNCHANGED <<args, os, dirs, config_file, exit_code, new_hash,
                   current_hash, new_content, before, trainerVars>>

\* shutil.copy2 raises OSError (no permission, disk full), before or after
\* it has written a part of the destination: main does not catch it.
CopyFails ==
    /\ pc = "copy"
    /\ ~args.dry_run
    /\ \/ UNCHANGED files
       \/ files' = Copy2Partial(files, FsKey(args.model, os),
                                FsKey(args.runtime_dest, os))
    /\ Exit(1)
    /\ UNCHANGED <<args, os, dirs, config_file, new_hash, current_hash,
                   new_content, before, trainerVars>>

\* update_config_section, lines 104-154: read the config, build the new
\* content and, unless dry_run, open the config for writing, which truncates
\* it.
UpdateConfig ==
    /\ pc = "update"
    /\ LET r == update_config_section(config_file.lines, runtime_dest_str,
                                      new_hash)
       IN  IF ~r.found
           THEN Exit(1) /\ UNCHANGED <<config_file, new_content>>
           ELSE /\ new_content' = r.new_lines
                /\ UNCHANGED exit_code
                /\ IF args.dry_run
                   THEN pc' = "summary" /\ UNCHANGED config_file
                   ELSE /\ pc' = "write"
                        /\ config_file' = [config_file EXCEPT !.lines = <<>>]
    /\ UNCHANGED <<args, os, files, dirs, new_hash, current_hash, before,
                   trainerVars>>

\* update_config_section, lines 155-156: f.write(new_content) and the close.
WriteConfig ==
    /\ pc = "write"
    /\ config_file' = [config_file EXCEPT !.lines = new_content]
    /\ pc' = "summary"
    /\ UNCHANGED <<args, os, files, dirs, exit_code, new_hash, current_hash,
                   new_content, before, trainerVars>>

\* main, lines 291-306: the summary; main returns.
Summary ==
    /\ pc = "summary"
    /\ Exit(0)
    /\ UNCHANGED <<args, os, files, dirs, config_file, new_hash, current_hash,
                   new_content, before, trainerVars>>

(***************************************************************************)
(* The tree quantizer: quantize_tree_structure                             *)
(* (train_ippan_d_gbdt.py and, line for line the same,                     *)
(* train_ippan_d_gbdt_devnet.py).                                          *)
(*                                                                         *)
(* An input node is a record whose fields are the keys of the LightGBM     *)
(* dict.  A real number x is given by the integer q with x * SCALE = q/4,  *)
(* so that ties (q % 4 = 2) and both neighbours of a tie occur.  An output *)
(* node's leaf is <<>> for None and <<v>> for the integer v.               *)
(***************************************************************************)

\* Largest number of nodes of an input tree.
MaxNodes == 7

\* len(FEATURE_COLS)
NumFeatures == 7

\* list[i] raises IndexError unless -len <= i < len.
IndexInRange(i, len) == -len <= i /\ i < len

\* int(round(float(x) * SCALE)) for x * SCALE = q/4: Python 3's round() picks
\* the even neighbour at a tie.
PyRoundScaled(q) ==
    LET floor == q \div 4
        rem == q % 4
    IN  IF rem < 2 THEN floor
        ELSE IF rem > 2 THEN floor + 1
        ELSE IF floor % 2 = 0 THEN floor ELSE floor + 1

\* What an exception leaves: no node array.
Raised == [ok |-> FALSE, nodes |-> <<>>, id |-> -1]

\* visit, lines 41-53: the node a leaf appends.
LeafNode(node_id, node) ==
    [id |-> node_id, left |-> -1, right |-> -1, feature_idx |-> -1,
     threshold |-> 0, leaf |-> <<PyRoundScaled(node.leaf_value)>>]

\* A slip: the feature is counted from one.
SplitNodeOneBased(node_id, node) ==
    [id |-> node_id, left |-> -1, right |-> -1,
     feature_idx |-> node.split_feature + 1,
     threshold |-> PyRoundScaled(node.threshold), leaf |-> <<>>]

\* visit, lines 55-69: the node a split appends, before its children exist.
SplitNode(node_id, node) ==
    [id |-> node_id, left |-> -1, right |-> -1,
     feature_idx |-> node.split_feature,
     threshold |-> PyRoundScaled(node.threshold), leaf |-> <<>>]

\* A slip: the second of the two assignments is lost.
SetChildrenLeftOnly(nodes, node_id, left_id, right_id) ==
    [nodes EXCEPT ![node_id + 1].left = left_id]

\* visit, lines 73-74: nodes[node_id]["left"] = left_id, ["right"] = right_id.
SetChildren(nodes, node_id, left_id, right_id) ==
    [nodes EXCEPT ![node_id + 1].left = left_id,
                  ![node_id + 1].right = right_id]

\* visit: appends the subtree of node to nodes in pre-order and returns the
\* id of its root; a missing key (KeyError) or a feature index outside the
\* list (IndexError) raises.
RECURSIVE visit(_, _)
visit(node, nodes) ==
    LET node_id == Len(nodes)
    IN  IF "leaf_value" \in DOMAIN node
        THEN [ok |-> TRUE, nodes |-> Append(nodes, LeafNode(node_id, node)),
              id |-> node_id]
        ELSE IF "split_feature" \notin DOMAIN node THEN Raised
        ELSE IF ~IndexInRange(node.split_feature, NumFeatures) THEN Raised
        ELSE IF "threshold" \notin DOMAIN node THEN Raised
        ELSE IF "left_child" \notin DOMAIN node THEN Raised
        ELSE LET l == visit(node.left_child,
                            Append(nodes, SplitNode(node_id, node)))
             IN  IF ~l.ok THEN Raised
                 ELSE IF "right_child" \notin DOMAIN node THEN Raised
                 ELSE LET r == visit(node.right_child, l.nodes)
                      IN  IF ~r.ok THEN Raised
                          ELSE [ok |-> TRUE,
                                nodes |-> SetChildren(r.nodes, node_id,
                                                      l.id, r.id),
                                id |-> node_id]

\* quantize_tree_structure: ok = FALSE when visit raised.
quantize_tree_structure(t) ==
    LET v == visit(t, <<>>) IN [ok |-> v.ok, nodes |-> v.nodes]

\* Input values, as q = 4 * x * SCALE: 0.1 and 0.9 (exact), a tie with an
\* even floor (0.5 units), and a threshold of 0.5.
LeafValues == {400000, 3600000, 2}
Thresholds == {2000000}
\* split_feature: the first feature, one past the last, and a negative index.
SplitFeatures == {0, NumFeatures, -1}

RECURSIVE TreesOfSize(_)
TreesOfSize(n) ==
    IF n = 1 THEN {[leaf_value |-> v] : v \in LeafValues}
    ELSE IF n % 2 = 0 THEN {}
    ELSE UNION {
             {[split_feature |-> f, threshold |-> t,
               left_child |-> l, right_child |-> r] :
                  f \in SplitFeatures, t \in Thresholds,
                  l \in TreesOfSize(k), r \in TreesOfSize(n - 1 - k)}
             : k \in 1..(n - 2)}

\* More values for the trees of at most three nodes: the ties 0.5, 1.5 and
\* 2.5 units and the negative ties -0.5 and -2.5 units.
TieValues == {2, 6, 10, -2, -10}
\* split_feature of those trees: both ends of the list, one past the last,
\* the negative indices a Python list accepts (-1, -len) and one below.
WideSplitFeatures ==
    {0, NumFeatures - 1, NumFeatures, -1, -NumFeatures, -NumFeatures - 1}

\* LightGBM dicts that are not what dump_model writes: a node without
\* leaf_value and without split keys, and nodes with leaf_value and split
\* keys at once (without and with children).
NeitherNode == [leaf_index |-> 0]
BothNodes ==
    {[leaf_value |-> 400000, split_feature |-> 0, threshold |-> 2000000],
     [leaf_value |-> 400000, split_feature |-> 0, threshold |-> 2000000,
      left_child |-> [leaf_value |-> 400000],
      right_child |-> [leaf_value |-> 3600000]]}

SmallNodes ==
    {[leaf_value |-> v] : v \in LeafValues \cup TieValues}
        \cup {NeitherNode} \cup BothNodes

SmallTrees ==
    SmallNodes \cup
    {[split_feature |-> f, threshold |-> t, left_child |-> l, right_child |-> r] :
         f \in WideSplitFeatures, t \in Thresholds \cup {2},
         l \in SmallNodes, r \in SmallNodes}

InputTrees == UNION {TreesOfSize(n) : n \in 1..MaxNodes} \cup SmallTrees

QuantizerInit ==
    /\ tree \in InputTrees
    /\ quantized = [ok |-> FALSE, nodes |-> <<>>]
    /\ qpc = "call"

Quantize ==
    /\ qpc = "call"
    /\ quantized' = quantize_tree_structure(tree)
    /\ qpc' = "done"
    /\ UNCHANGED <<tree, promoteVars, hasherVars, assemblerVars, splitterVars,
                   discoveryVars>>

\* The quantizer when the promotion tool is what runs.
QuantizerIdle ==
    /\ tree = [leaf_value |-> 0]
    /\ quantized = [ok |-> FALSE, nodes |-> <<>>]
    /\ qpc = "idle"

\* The promotion tool when the quantizer is what runs.
PromoteIdle ==
    /\ args = [model |-> MissingModel, runtime_dest |-> OutsideDest,
               allow_same_hash |-> FALSE, dry_run |-> TRUE]
    /\ os = "posix"
    /\ files = FilesBefore
    /\ dirs = BaseDirs
    /\ config_file = [exists |-> FALSE, lines |-> <<>>]
    /\ pc = "idle"
    /\ exit_code = -1
    /\ new_hash = None
    /\ current_hash = None
    /\ new_content = <<>>
    /\ before = [files |-> files, dirs |-> dirs, config_file |-> config_file]

(***************************************************************************)
(* The canonical hasher (_compute_model_hash_b3) on two model files         *)
(***************************************************************************)

\* A tree as dump_model gives it: a split on feature 0 at 0.5 over the leaves
\* 0.1 and 0.9.
SampleTree ==
    [split_feature |-> 0, threshold |-> 2000000,
     left_child |-> [leaf_value |-> 400000],
     right_child |-> [leaf_value |-> 3600000]]

\* The dict of a quantized node, and of a tree, as a JSON value.
NodeJson(n) ==
    JObj([id |-> JInt(n.id), left |-> JInt(n.left), right |-> JInt(n.right),
          feature_idx |-> JInt(n.feature_idx), threshold |-> JInt(n.threshold),
          leaf |-> IF n.leaf = <<>> THEN JNull ELSE JInt(n.leaf[1])])
TreeJson(nodes, weight) ==
    JObj([nodes |-> JArr([i \in DOMAIN nodes |-> NodeJson(nodes[i])]),
          weight |-> JInt(weight)])

\* The node arrays of the documents: the quantized sample tree; the same with
\* one leaf one unit larger, with the threshold one unit larger, and with
\* the two leaves in the other order.
SampleNodes == quantize_tree_structure(SampleTree).nodes
NodeArrays ==
    {SampleNodes,
     [SampleNodes EXCEPT ![2].leaf = <<100001>>],
     [SampleNodes EXCEPT ![1].threshold = 500001],
     <<SampleNodes[1], SampleNodes[3], SampleNodes[2]>>}

\* The trees lists: one tree, and two trees in either order.
TreeLists ==
    {<<TreeJson(a, 1000000)>> : a \in NodeArrays}
        \cup {<<TreeJson(SampleNodes, 1000000), OneLeafTree>>,
              <<OneLeafTree, TreeJson(SampleNodes, 1000000)>>}

\* The fields the hasher does not read: none, what a trainer adds, and
\* other values with a field no trainer writes.
Metadata ==
    {<<>>,
     [features |-> JArr(<<JStr("f")>>), feature_scale |-> JInt(1000000),
      target |-> JStr("y"), lightgbm_format_version |-> JStr("4")],
     [features |-> JArr(<<JStr("g"), JStr("f")>>), note |-> JStr("unknown")]}

ModelDocuments ==
    {JObj([version |-> JInt(1), scale |-> JInt(1000000), trees |-> JArr(t),
           bias |-> JInt(b), post_scale |-> JInt(1000000)] @@ m) :
         t \in TreeLists, b \in {0, 1}, m \in Metadata}

\* Documents that lack one of the fields the hasher reads: a trainer's
\* document without it.
IncompleteDocuments ==
    LET full == [version |-> JInt(1), scale |-> JInt(1000000),
                 trees |-> JArr(<<OneLeafTree>>), bias |-> JInt(0),
                 post_scale |-> JInt(1000000),
                 features |-> JArr(<<JStr("f")>>)]
    IN  {JObj([k \in (DOMAIN full) \ {lacking} |-> full[k]]) :
             lacking \in HashedKeys}

\* How a file is written: the keys of every object in lexicographic or in
\* the opposite order, without or with blanks after "," and ":".
FileFormats ==
    {[order |-> KeyOrder, spaced |-> FALSE],
     [order |-> Reverse(KeyOrder), spaced |-> FALSE],
     [order |-> Reverse(KeyOrder), spaced |-> TRUE]}

HasherInit ==
    /\ documents \in (ModelDocuments \cup IncompleteDocuments)
                        \X (ModelDocuments \cup IncompleteDocuments)
    /\ \E f1 \in FileFormats, f2 \in FileFormats :
           model_files = <<Serialize(documents[1], f1.order, f1.spaced),
                           Serialize(documents[2], f2.order, f2.spaced)>>
    /\ model_hashes = <<None, None>>

\* One call of _compute_model_hash_b3, on either file.
ComputeModelHash ==
    /\ \E i \in 1..2 :
           /\ model_hashes[i] = None
           /\ model_hashes' =
                  [model_hashes EXCEPT
                       ![i] = compute_model_hash_b3(model_files[i])]
    /\ UNCHANGED <<documents, model_files, promoteVars, quantizerVars,
                   assemblerVars, splitterVars,
                   discoveryVars>>

\* The hasher when another tool is what runs.
HasherIdle ==
    /\ documents = <<CoreDoc, CoreDoc>>
    /\ model_files = <<CoreFile, CoreFile>>
    /\ model_hashes = <<None, None>>

(***************************************************************************)
(* The model assembler: the end of main of both trainers, from dump_model   *)
(* to the model file (and, in the devnet trainer, its digest).              *)
(***************************************************************************)

\* Largest number of trees of the trained ensemble.
MaxTrees == 2

SCALE == 1000000

FEATURE_COLS ==
    <<"uptime_ratio_7d", "validated_blocks_7d", "missed_blocks_7d",
      "avg_latency_ms", "slashing_events_90d", "stake_normalized",
      "peer_reports_quality">>
TARGET_COL == "fairness_score_scaled"
FEATURE_SCALE ==
    [f \in {FEATURE_COLS[i] : i \in DOMAIN FEATURE_COLS} |-> JInt(SCALE)]

\* dict.get(key, default)
Get(d, key, default) == IF key \in DOMAIN d THEN d[key] ELSE default

\* The entries of tree_info: a tree_structure (the sample tree, a leaf whose
\* value is a tie, a node that is neither leaf nor split), without shrinkage
\* or with a shrinkage of 0.1 or of half a unit.
TreeInfoEntries ==
    LET structures == {SampleTree, [leaf_value |-> 10], NeitherNode}
    IN  {[tree_structure |-> t] : t \in structures}
            \cup {[tree_structure |-> t, shrinkage |-> w] :
                      t \in structures, w \in {400000, 2}}

RECURSIVE SeqsUpTo(_, _)
SeqsUpTo(S, n) ==
    IF n = 0 THEN {<<>>}
    ELSE LET shorter == SeqsUpTo(S, n - 1)
         IN  shorter \cup {Append(q, x) : q \in shorter, x \in S}

\* What dump_model may return: tree_info of up to MaxTrees entries or no
\* tree_info at all, with or without average_output (minus half a unit).
RawModels ==
    LET infos == {[tree_info |-> ti, version |-> "v4"] :
                      ti \in SeqsUpTo(TreeInfoEntries, MaxTrees)}
                     \cup {[version |-> "v4"]}
    IN  infos \cup {r @@ [average_output |-> -2] : r \in infos}

AssemblerInit ==
    /\ trainer \in {"train", "devnet"}
    /\ raw \in RawModels
    /\ deterministic_trees = <<>>
    /\ bias = <<>>
    /\ output_file = [exists |-> FALSE, bytes |-> <<>>]
    /\ model_hash = None
    /\ apc = "trees"

\* A loop that goes on after a tree that cannot be quantized, leaving an
\* empty tree in its place.
AssembleTreeLenient ==
    /\ apc = "trees"
    /\ LET tree_info == Get(raw, "tree_info", <<>>)
           i == Len(deterministic_trees) + 1
       IN  /\ i <= Len(tree_info)
           /\ LET q == quantize_tree_structure(tree_info[i].tree_structure)
                  weight == PyRoundScaled(Get(tree_info[i], "shrinkage",
                                              4 * SCALE))
              IN  /\ deterministic_trees' =
                         Append(deterministic_trees,
                                TreeJson(IF q.ok THEN q.nodes ELSE <<>>,
                                         weight))
                  /\ apc' = "trees"
    /\ UNCHANGED <<trainer, raw, bias, output_file, model_hash, promoteVars,
                   quantizerVars, hasherVars, splitterVars,
                   discoveryVars>>

\* One turn of the loop over raw.get("tree_info", []); an exception of
\* quantize_tree_structure ends main.
AssembleTree ==
    /\ apc = "trees"
    /\ LET tree_info == Get(raw, "tree_info", <<>>)
           i == Len(deterministic_trees) + 1
       IN  /\ i <= Len(tree_info)
           /\ LET q == quantize_tree_structure(tree_info[i].tree_structure)
                  weight == PyRoundScaled(Get(tree_info[i], "shrinkage",
                                              4 * SCALE))
              IN  IF q.ok
                  THEN /\ deterministic_trees' =
                              Append(deterministic_trees,
                                     TreeJson(q.nodes, weight))
                       /\ apc' = "trees"
                  ELSE /\ apc' = "raised"
                       /\ UNCHANGED deterministic_trees
    /\ UNCHANGED <<trainer, raw, bias, output_file, model_hash, promoteVars,
                   quantizerVars, hasherVars, splitterVars,
                   discoveryVars>>

\* After the loop: bias = int(round(float(raw.get("average_output", 0.0))
\* * SCALE)).
ComputeBias ==
    /\ apc = "trees"
    /\ Len(deterministic_trees) = Len(Get(raw, "tree_info", <<>>))
    /\ bias' = <<PyRoundScaled(Get(raw, "average_output", 0))>>
    /\ apc' = "write"
    /\ UNCHANGED <<trainer, raw, deterministic_trees, output_file, model_hash,
                   promoteVars, quantizerVars, hasherVars, splitterVars,
                   discoveryVars>>

\* main's export dict.
Export ==
    JObj([version |-> JInt(1), scale |-> JInt(SCALE),
          trees |-> JArr(deterministic_trees), bias |-> JInt(bias[1]),
          post_scale |-> JInt(SCALE),
          features |-> JArr([i \in DOMAIN FEATURE_COLS |->
                                 JStr(FEATURE_COLS[i])]),
          feature_scale |-> JObj(FEATURE_SCALE), target |-> JStr(TARGET_COL),
          lightgbm_format_version |-> JStr(Get(raw, "version", "unknown"))])

\* json.dump(export, f, sort_keys=True, separators=(",", ":")) into
\* output_path.
WriteModel ==
    /\ apc = "write"
    /\ output_file' = [exists |-> TRUE, bytes |-> JsonDumps(Export, FALSE)]
    /\ apc' = IF trainer = "devnet" THEN "hash" ELSE "done"
    /\ UNCHANGED <<trainer, raw, deterministic_trees, bias, model_hash,
                   promoteVars, quantizerVars, hasherVars, splitterVars,
                   discoveryVars>>

\* The devnet trainer: model_hash = _compute_model_hash_b3(output_path).
HashModel ==
    /\ apc = "hash"
    /\ model_hash' = compute_model_hash_b3(output_file.bytes)
    /\ apc' = "done"
    /\ UNCHANGED <<trainer, raw, deterministic_trees, bias, output_file,
                   promoteVars, quantizerVars, hasherVars, splitterVars,
                   discoveryVars>>

\* The assembler when another tool is what runs.
AssemblerIdle ==
    /\ trainer = "train"
    /\ raw = [version |-> "v4"]
    /\ deterministic_trees = <<>>
    /\ bias = <<>>
    /\ output_file = [exists |-> FALSE, bytes |-> <<>>]
    /\ model_hash = None
    /\ apc = "idle"

(***************************************************************************)
(* The deterministic split of both trainers (row_key, is_val, val_mask).    *)
(*                                                                         *)
(* A dataset is what read_csv finds in a CSV file: its columns and its      *)
(* rows, each row the function from the columns to the text of its cells    *)
(* ("" for an empty cell).  Only the columns row_key reads are kept.        *)
(***************************************************************************)

\* Largest number of rows of a dataset.
MaxRows == 2

\* The cell texts of each column.
Timestamp == "2025-01-01T05:22:55Z"
CellsOf(col) ==
    CASE col = "validator_id" -> {"v1", "v43291"}
      [] col = "round_id" -> {"1", ""}
      [] col = "timestamp_utc" -> {Timestamp}
      [] col = "hashtimer" -> {Timestamp}
      [] col = "timestamp" -> {Timestamp}
      [] col = "ts" -> {"1735708975"}
AllCells == {"v1", "v43291", "1", "", Timestamp, "1735708975"}

\* The column sets of the datasets.
ColumnSets ==
    {{"validator_id", "round_id", "timestamp_utc"},
     {"validator_id", "round_id", "hashtimer", "ts"},
     {"validator_id", "timestamp", "ts"},
     {"round_id", "ts"},
     {"round_id"}}

RowsOf(cols) == {r \in [cols -> AllCells] : \A c \in cols : r[c] \in CellsOf(c)}

Datasets ==
    UNION {{[cols |-> cols, rows |-> rows] :
                rows \in SeqsUpTo(RowsOf(cols), MaxRows)} : cols \in ColumnSets}

\* df.at[i, col] inside an f-string.  read_csv gives a column of integers
\* with an empty cell the dtype float64, so that 1 prints as 1.0; an empty
\* cell is NaN and prints as nan.
NumericCells == {"1"}
At(df, i, col) ==
    LET cells == {df.rows[j][col] : j \in DOMAIN df.rows}
        cell == df.rows[i][col]
    IN  IF cell = "" THEN "nan"
        ELSE IF cells \subseteq NumericCells \cup {""} /\ "" \in cells
        THEN cell \o ".0"
        ELSE cell

\* A slip: ts is looked for before timestamp.
row_key_ts_first(df, i) ==
    LET cols == df.cols
        vid == IF "validator_id" \in cols THEN At(df, i, "validator_id")
               ELSE "na"
        rid == IF "round_id" \in cols THEN At(df, i, "round_id") ELSE "na"
    IN  IF "timestamp_utc" \in cols
        THEN vid \o "|" \o rid \o "|" \o At(df, i, "timestamp_utc")
        ELSE IF "hashtimer" \in cols
        THEN vid \o "|" \o rid \o "|" \o At(df, i, "hashtimer")
        ELSE IF "ts" \in cols
        THEN vid \o "|" \o rid \o "|" \o At(df, i, "ts")
        ELSE IF "timestamp" \in cols
        THEN vid \o "|" \o rid \o "|" \o At(df, i, "timestamp")
        ELSE vid \o "|" \o rid

\* main.row_key
row_key(df, i) ==
    LET cols == df.cols
        vid == IF "validator_id" \in cols THEN At(df, i, "validator_id")
               ELSE "na"
        rid == IF "round_id" \in cols THEN At(df, i, "round_id") ELSE "na"
    IN  IF "timestamp_utc" \in cols
        THEN vid \o "|" \o rid \o "|" \o At(df, i, "timestamp_utc")
        ELSE IF "hashtimer" \in cols
        THEN vid \o "|" \o rid \o "|" \o At(df, i, "hashtimer")
        ELSE IF "timestamp" \in cols
        THEN vid \o "|" \o rid \o "|" \o At(df, i, "timestamp")
        ELSE IF "ts" \in cols
        THEN vid \o "|" \o rid \o "|" \o At(df, i, "ts")
        ELSE vid \o "|" \o rid

\* hashlib.sha256(key.encode("utf-8")).digest(): the first two bytes of the
\* SHA-256 digest of each key that the cells of the datasets can make.
Sha256Head ==
    ("v1|1|2025-01-01T05:22:55Z" :> <<51, 51>>)
    @@ ("v1|1.0|2025-01-01T05:22:55Z" :> <<157, 15>>)
    @@ ("v1|nan|2025-01-01T05:22:55Z" :> <<188, 12>>)
    @@ ("v43291|1|2025-01-01T05:22:55Z" :> <<51, 50>>)
    @@ ("v43291|1.0|2025-01-01T05:22:55Z" :> <<65, 70>>)
    @@ ("v43291|nan|2025-01-01T05:22:55Z" :> <<115, 4>>)
    @@ ("na|1" :> <<158, 60>>)
    @@ ("na|1.0" :> <<174, 238>>)
    @@ ("na|nan" :> <<26, 60>>)
    @@ ("v1|na|2025-01-01T05:22:55Z" :> <<68, 26>>)
    @@ ("v43291|na|2025-01-01T05:22:55Z" :> <<181, 249>>)
    @@ ("na|1|1735708975" :> <<192, 76>>)
    @@ ("na|1.0|1735708975" :> <<202, 114>>)
    @@ ("na|nan|1735708975" :> <<130, 204>>)
    @@ ("v1|na|1735708975" :> <<158, 51>>)
    @@ ("v43291|na|1735708975" :> <<34, 79>>)

\* A slip: the first rows of the file become the validation rows.
is_val_by_position(df, i) == 5 * i <= Len(df.rows) + 4

\* A slip: the bound itself counts as a validation bucket.
is_val_inclusive(df, i) ==
    LET h == Sha256Head[row_key(df, i)]
        bucket == h[1] * 256 + h[2]
    IN  bucket <= (2 * 65536) \div 10

\* main.is_val: bucket = (h[0] << 8) | h[1]; bucket < int(0.2 * 65536).
is_val(df, i) ==
    LET h == Sha256Head[row_key(df, i)]
        bucket == h[1] * 256 + h[2]
    IN  bucket < (2 * 65536) \div 10

\* A run that has not split its dataset yet.
NotSplit ==
    [done |-> FALSE, keys |-> <<>>, mask |-> <<>>, X_train |-> <<>>,
     X_val |-> <<>>]

\* X[mask]: the rows of X at which the mask holds, in their order; a row is
\* the index it has in df.
RECURSIVE BooleanIndex(_, _)
BooleanIndex(mask, n) ==
    IF n = 0 THEN <<>>
    ELSE IF mask[n] THEN Append(BooleanIndex(mask, n - 1), n)
    ELSE BooleanIndex(mask, n - 1)

\* A slip: the training set keeps every row.
TrainOnAllRows(df, mask) ==
    [X_train |-> [i \in DOMAIN df.rows |-> i],
     X_val |-> BooleanIndex(mask, Len(mask))]

\* X_train, X_val = X[~val_mask], X[val_mask]
TrainValSplit(df, mask) ==
    [X_train |-> BooleanIndex([i \in DOMAIN mask |-> ~mask[i]], Len(mask)),
     X_val |-> BooleanIndex(mask, Len(mask))]

SplitterInit ==
    /\ dfs \in Datasets \X Datasets
    /\ val_masks = <<NotSplit, NotSplit>>

\* val_mask = np.array([is_val(i) for i in range(len(df))]) and the split
\* of X by it, in a run of a trainer on either dataset; keys are the values
\* row_key returned to is_val.
SplitDataset ==
    /\ \E d \in 1..2 :
           /\ ~val_masks[d].done
           /\ LET df == dfs[d]
                  val_mask == [i \in DOMAIN df.rows |-> is_val(df, i)]
                  split == TrainValSplit(df, val_mask)
              IN  val_masks' =
                      [val_masks EXCEPT
                           ![d] = [done |-> TRUE,
                                   keys |-> [i \in DOMAIN df.rows |->
                                                 row_key(df, i)],
                                   mask |-> val_mask,
                                   X_train |-> split.X_train,
                                   X_val |-> split.X_val]]
    /\ UNCHANGED <<dfs, promoteVars, quantizerVars, hasherVars, assemblerVars,
                   discoveryVars>>

\* The splitter when another tool is what runs.
SplitterIdle ==
    /\ dfs = <<>>
    /\ val_masks = <<>>

(***************************************************************************)
(* The dataset discovery of the devnet trainer (_pick_latest_dataset_file). *)
(*                                                                         *)
(* A file name is the text before its timestamp, the timestamp and the      *)
(* text after it.  Timestamps have one width, so that two names with the    *)
(* same text before the timestamp compare as their timestamps do; a         *)
(* timestamp is the number of its rank.                                     *)
(***************************************************************************)

\* Largest timestamp of a file name.
MaxStamp == 3

FileName(prefix, stamp, suffix) ==
    [prefix |-> prefix, stamp |-> stamp, suffix |-> suffix]

\* The names a data directory may hold: datasets, plain and compressed, and
\* names that neither pattern matches.
DatasetNames ==
    {FileName("devnet_dataset_", t, x) :
         t \in 1..MaxStamp, x \in {".csv", ".csv.gz"}}
OtherNames ==
    {FileName("devnet_dataset_", 1, ".json"),
     FileName("dataset_", MaxStamp, ".csv")}

\* data_dir.glob("devnet_dataset_*" + suffix): the pattern matches the whole
\* name.
Glob(names, suffix) ==
    {n \in names : n.prefix = "devnet_dataset_" /\ n.suffix = suffix}

\* The order of two names of one prefix as strings: the timestamp decides,
\* then ".csv" comes before ".csv.gz" and ".json".
SuffixRank(suffix) ==
    CASE suffix = ".csv" -> 0 [] suffix = ".csv.gz" -> 1 [] OTHER -> 2
PathBefore(a, b) ==
    \/ a.stamp < b.stamp
    \/ a.stamp = b.stamp /\ SuffixRank(a.suffix) < SuffixRank(b.suffix)

\* sorted(paths)
RECURSIVE Sorted(_)
Sorted(S) ==
    IF S = {} THEN <<>>
    ELSE LET least == CHOOSE x \in S : \A y \in S \ {x} : PathBefore(x, y)
         IN  <<least>> \o Sorted(S \ {least})

\* train_ippan_d_gbdt_devnet._pick_latest_dataset_file
pick_latest_dataset_file(dir) ==
    IF ~dir.exists THEN [state |-> "FileNotFoundError", path |-> <<>>]
    ELSE LET candidates == Sorted(Glob(dir.names, ".csv.gz"))
                               \o Sorted(Glob(dir.names, ".csv"))
         IN  IF candidates = <<>>
             THEN [state |-> "FileNotFoundError", path |-> <<>>]
             ELSE [state |-> "returned",
                   path |-> <<candidates[Len(candidates)]>>]

DiscoveryInit ==
    /\ \/ data_dir = [exists |-> FALSE, names |-> {}]
       \/ \E names \in SUBSET (DatasetNames \cup OtherNames) :
              data_dir = [exists |-> TRUE, names |-> names]
    /\ csv_path = [state |-> "call", path |-> <<>>]

\* main, without --csv: csv_path = _pick_latest_dataset_file(data_dir).
PickLatest ==
    /\ csv_path.state = "call"
    /\ csv_path' = pick_latest_dataset_file(data_dir)
    /\ UNCHANGED <<data_dir, promoteVars, quantizerVars, hasherVars,
                   assemblerVars, splitterVars>>

\* The discovery when another tool is what runs.
DiscoveryIdle ==
    /\ data_dir = [exists |-> FALSE, names |-> {}]
    /\ csv_path = [state |-> "idle", path |-> <<>>]

\* A run of the promotion tool.
Init ==
    PromoteInit /\ QuantizerIdle /\ HasherIdle /\ AssemblerIdle /\ SplitterIdle
        /\ DiscoveryIdle
Next ==
    \/ Validate
    \/ ComputeHash
    \/ Guard
    \/ MakeDestDir
    \/ CopyModel
    \/ CopyFails
    \/ UpdateConfig
    \/ WriteConfig
    \/ Summary
Spec == Init /\ [][Next]_vars

\* A call of quantize_tree_structure.
QInit ==
    QuantizerInit /\ PromoteIdle /\ HasherIdle /\ AssemblerIdle /\ SplitterIdle
        /\ DiscoveryIdle
QNext == Quantize
SpecQuantize == QInit /\ [][QNext]_vars

\* Two model files and the calls that hash them.
HInit ==
    HasherInit /\ PromoteIdle /\ QuantizerIdle /\ AssemblerIdle /\ SplitterIdle
        /\ DiscoveryIdle
HNext == ComputeModelHash
SpecHash == HInit /\ [][HNext]_vars

\* The end of a trainer's main.
AInit ==
    AssemblerInit /\ PromoteIdle /\ QuantizerIdle /\ HasherIdle /\ SplitterIdle
        /\ DiscoveryIdle
ANext ==
    \/ AssembleTree
    \/ ComputeBias
    \/ WriteModel
    \/ HashModel
SpecAssemble == AInit /\ [][ANext]_vars

\* The split of two datasets.
SInit ==
    SplitterInit /\ PromoteIdle /\ QuantizerIdle /\ HasherIdle /\ AssemblerIdle
        /\ DiscoveryIdle
SNext == SplitDataset
SpecSplit == SInit /\ [][SNext]_vars

\* The dataset discovery of a devnet trainer run.
DInit ==
    DiscoveryInit /\ PromoteIdle /\ QuantizerIdle /\ HasherIdle
        /\ AssemblerIdle /\ SplitterIdle
DNext == PickLatest
SpecDiscover == DInit /\ [][DNext]_vars

(***************************************************************************)
(* What the claims speak of                                                *)
(***************************************************************************)

\* The key lines of the TOML table [name]: those after its header and before
\* the next header of any table.
TableKeyLines(lines, name) ==
    {i \in DOMAIN lines :
        /\ lines[i].kind = "kv"
        /\ \E h \in 1..(i - 1) :
               /\ lines[h] = Hdr(name)
               /\ \A j \in (h + 1)..(i - 1) : lines[j].kind # "hdr"}

\* The values the pin record [dgbdt.model] gives to key k.
PinValues(lines, k) ==
    {lines[i].val : i \in {j \in TableKeyLines(lines, SectionName) :
                               lines[j].key = k}}

\* The digests the pin record holds, under either key name.
PinDigests(lines) ==
    PinValues(lines, "expected_hash") \cup PinValues(lines, "hash_b3")

HasSection(lines) == \E i \in DOMAIN lines : lines[i] = Hdr(SectionName)

\* The lines that are neither the path line nor a digest line of the pin
\* record, in order.
RECURSIVE FrameOf(_, _)
FrameOf(lines, n) ==
    IF n = 0 THEN <<>>
    ELSE IF /\ n \in TableKeyLines(lines, SectionName)
            /\ lines[n].key \in {"path", "expected_hash", "hash_b3"}
    THEN FrameOf(lines, n - 1)
    ELSE Append(FrameOf(lines, n - 1), lines[n])
Frame(lines) == FrameOf(lines, Len(lines))

\* The runtime destination lies under crates/ai_registry/models/.
LiesUnderModelsDir(dest) ==
    LET parts == Resolve(PathParts(ReplaceBackslash(dest), "posix"))
    IN  Len(parts) > Len(ModelsDir) /\ StartsWith(parts, ModelsDir)

CandidateExists == FsKey(args.model, os) \in DOMAIN before.files
CandidateBytes == before.files[FsKey(args.model, os)]

\* Inputs that pass the three validations of the spec.
ValidInputs ==
    /\ CandidateExists
    /\ LiesUnderModelsDir(args.runtime_dest)
    /\ before.config_file.exists

\* The run has gone past the guard.
Proceeded == pc \in {"mkdir", "copy", "update", "write", "summary"}

DiskUnchanged ==
    /\ files = before.files
    /\ dirs = before.dirs
    /\ config_file = before.config_file

\* C1 (guard refusal): when the digest the pin record holds equals the
\* candidate's digest ignoring case and --allow-same-hash is not given, the
\* run exits with code 2, the config is as before and nothing was copied.
C1_GuardRefusal ==
    LET pinned == PinDigests(before.config_file.lines)
    IN  (/\ ValidInputs
         /\ ~args.allow_same_hash
         /\ pinned # {}
         /\ \A d \in pinned :
                Lower(d) = Lower(compute_blake3_hash(CandidateBytes)))
        => /\ ~Proceeded
           /\ pc = "exit" => exit_code = 2
           /\ config_file = before.config_file
           /\ files = before.files

\* C2: the digest promote computes for the candidate file is the digest
\* _compute_model_hash_b3 gives for the same file.
C2_DigestIsCanonical ==
    new_hash # None => new_hash = compute_model_hash_b3(CandidateBytes)

\* C3 (guard success frame): after an applied promotion the config differs
\* from the one before in nothing but the path line and the digest line of
\* the pin record.
C3_SuccessFrame ==
    (pc = "exit" /\ exit_code = 0 /\ ~args.dry_run)
        => Frame(config_file.lines) = Frame(before.config_file.lines)

\* C4 (success postcondition): after an applied promotion the destination
\* holds the candidate's bytes, and the pin record has the normalised
\* destination as its path and the candidate digest of this run as its
\* digest.
C4_SuccessPostcondition ==
    (pc = "exit" /\ exit_code = 0 /\ ~args.dry_run)
        => /\ FsKey(args.runtime_dest, os) \in DOMAIN files
           /\ files[FsKey(args.runtime_dest, os)] = CandidateBytes
           /\ PinValues(config_file.lines, "path") = {runtime_dest_str}
           /\ PinDigests(config_file.lines) = {new_hash}

\* C5: a dry run leaves files, directories and the config as they were.
C5_DryRunNoSideEffects == args.dry_run => DiskUnchanged

\* C6 (atomic config write): at every point of a run the config on disk is
\* the original content or the full updated content.
C6_ConfigWriteAtomic ==
    \/ config_file.lines = before.config_file.lines
    \/ /\ CandidateExists
       /\ config_file.lines =
              update_config_section(before.config_file.lines, runtime_dest_str,
                                    compute_blake3_hash(CandidateBytes)).new_lines

\* C7 (input validation): with a missing candidate, a destination that does
\* not lie under the models directory or a missing config, the run exits
\* with code 1 and has changed nothing on disk.
C7_InputValidation ==
    ~ValidInputs
        => /\ pc \in {"validate", "exit"}
           /\ pc = "exit" => exit_code = 1
           /\ DiskUnchanged

\* C8: if the config has no [dgbdt.model] section, the failure is reported
\* before anything was copied or written.
C8_MissingSectionFailsFirst ==
    (before.config_file.exists /\ ~HasSection(before.config_file.lines))
        => /\ files = before.files
           /\ config_file = before.config_file
           /\ pc # "exit" \/ exit_code = 1

\* An output node written by the split branch of visit.
IsInternal(n) == n.leaf = <<>>

\* Following left/right from index i (0-based) ends at a leaf within fuel
\* steps on every branch.
RECURSIVE EndsAtLeaf(_, _, _)
EndsAtLeaf(nodes, i, fuel) ==
    /\ i \in 0..(Len(nodes) - 1)
    /\ \/ ~IsInternal(nodes[i + 1])
       \/ /\ fuel > 0
          /\ EndsAtLeaf(nodes, nodes[i + 1].left, fuel - 1)
          /\ EndsAtLeaf(nodes, nodes[i + 1].right, fuel - 1)

\* C9 (pre-order indexing): in the array quantize_tree_structure returns,
\* an internal node at index i has left = i + 1 and right > left, both
\* indices of the array, and the links from index 0 end at a leaf.
C9_PreOrderIndexing ==
    (qpc = "done" /\ quantized.ok)
        => LET nodes == quantized.nodes
           IN  /\ \A i \in 0..(Len(nodes) - 1) :
                      IsInternal(nodes[i + 1])
                          => /\ nodes[i + 1].left = i + 1
                             /\ nodes[i + 1].right > nodes[i + 1].left
                             /\ nodes[i + 1].right < Len(nodes)
               /\ EndsAtLeaf(nodes, 0, Len(nodes))

\* C9's case: a returned array in which a left subtree has more than one
\* node, so that right is not simply i + 2.
C9_Witness ==
    /\ qpc = "done"
    /\ quantized.ok
    /\ \E i \in DOMAIN quantized.nodes :
           /\ IsInternal(quantized.nodes[i])
           /\ quantized.nodes[i].right > quantized.nodes[i].left + 1
           /\ IsInternal(quantized.nodes[quantized.nodes[i].right + 1])

\* C10 (node shape): every node of a returned array is a leaf node
\* (feature_idx = -1, leaf not null) or an internal node (feature_idx >= 0,
\* leaf null, left >= 0, right >= 0), and not both.
C10_NodeShape ==
    (qpc = "done" /\ quantized.ok)
        => \A i \in DOMAIN quantized.nodes :
               LET n == quantized.nodes[i]
                   leafShape == n.feature_idx = -1 /\ n.leaf # <<>>
                   splitShape == /\ n.feature_idx >= 0
                                 /\ n.leaf = <<>>
                                 /\ n.left >= 0
                                 /\ n.right >= 0
               IN  leafShape # splitShape

\* The nodes of an input tree.
RECURSIVE NodesOf(_)
NodesOf(t) ==
    {t} \cup (IF "left_child" \in DOMAIN t THEN NodesOf(t.left_child) ELSE {})
        \cup (IF "right_child" \in DOMAIN t THEN NodesOf(t.right_child) ELSE {})

SplitKeys == {"split_feature", "threshold", "left_child", "right_child"}

\* An input tree as dump_model writes it: every node is a leaf (leaf_value
\* only) or a split (the four split keys only).
WellFormed(t) ==
    \A n \in NodesOf(t) : DOMAIN n = {"leaf_value"} \/ DOMAIN n = SplitKeys

\* The nodes of a well-formed input tree in pre-order.
RECURSIVE Preorder(_)
Preorder(t) ==
    IF "leaf_value" \in DOMAIN t THEN <<t>>
    ELSE <<t>> \o Preorder(t.left_child) \o Preorder(t.right_child)

\* q/4 rounded to the nearest integer, a tie away from zero.
RoundHalfAway(q) ==
    IF q >= 0 THEN (q + 2) \div 4 ELSE -((2 - q) \div 4)

\* C11 (rounding): every leaf value and every threshold of a returned array
\* is the input value times the scale, rounded to the nearest integer with
\* a tie going away from zero.
C11_RoundHalfAwayFromZero ==
    (qpc = "done" /\ quantized.ok /\ WellFormed(tree))
        => LET inp == Preorder(tree)
           IN  \A i \in DOMAIN quantized.nodes :
                   IF "leaf_value" \in DOMAIN inp[i]
                   THEN quantized.nodes[i].leaf
                            = <<RoundHalfAway(inp[i].leaf_value)>>
                   ELSE quantized.nodes[i].threshold
                            = RoundHalfAway(inp[i].threshold)

\* C12 (feature index range): a tree with a split whose split_feature is
\* not one of 0 .. number of features - 1 makes the quantization fail.
C12_FeatureIndexRangeCheck ==
    (/\ qpc = "done"
     /\ WellFormed(tree)
     /\ \E n \in NodesOf(tree) :
            /\ "split_feature" \in DOMAIN n
            /\ n.split_feature \notin 0..(NumFeatures - 1))
        => ~quantized.ok

\* C13 (marker consistency): a tree with a node that has leaf_value together
\* with split_feature or children, or has none of them, makes the
\* quantization fail.
C13_MarkerConsistency ==
    (/\ qpc = "done"
     /\ \E n \in NodesOf(tree) :
            LET leafMarker == "leaf_value" \in DOMAIN n
                splitMarker == DOMAIN n \cap {"split_feature", "left_child",
                                              "right_child"} # {}
            IN  leafMarker = splitMarker)
        => ~quantized.ok

\* The tree of the reference scenario: a split on feature 0 at 0.5 with the
\* leaves 0.1 (left) and 0.9 (right).
ReferenceTree == SampleTree

\* C18 (reference scenario): at scale 1000000 the reference tree is quantized
\* to exactly three nodes: node 0 with id 0, feature_idx 0, threshold 500000,
\* left 1 and right 2; node 1 with id 1 and leaf 100000; node 2 with id 2 and
\* leaf 900000.
C18_ReferenceScenario ==
    (qpc = "done" /\ tree = ReferenceTree)
        => /\ quantized.ok
           /\ Len(quantized.nodes) = 3
           /\ LET n0 == quantized.nodes[1]
                  n1 == quantized.nodes[2]
                  n2 == quantized.nodes[3]
              IN  /\ n0.id = 0 /\ n0.feature_idx = 0 /\ n0.threshold = 500000
                  /\ n0.left = 1 /\ n0.right = 2
                  /\ n1.id = 1 /\ n1.leaf = <<100000>>
                  /\ n2.id = 2 /\ n2.leaf = <<900000>>

\* C18's case: the reference tree has been quantized.
C18_Witness == qpc = "done" /\ tree = ReferenceTree /\ quantized.ok

\* The five fields a model document is identified by.
ModelFields == {"version", "scale", "trees", "bias", "post_scale"}
Projection(doc) == [k \in ModelFields \cap DOMAIN doc.obj |-> doc.obj[k]]

\* Both documents have got a digest.
BothHashed ==
    /\ model_hashes[1] \notin {None, KeyError}
    /\ model_hashes[2] \notin {None, KeyError}

\* C15 (metadata independence): two model documents that agree on version,
\* scale, trees, bias and post_scale get the same digest, whatever other
\* fields they carry and in whatever key order and spacing they are written.
C15_MetadataIndependence ==
    (BothHashed /\ Projection(documents[1]) = Projection(documents[2]))
        => model_hashes[1] = model_hashes[2]

\* C15's case: two hashed documents that agree on the five fields and differ
\* in their other fields, written as different files.
C15_Witness ==
    /\ BothHashed
    /\ Projection(documents[1]) = Projection(documents[2])
    /\ DOMAIN documents[1].obj # DOMAIN documents[2].obj
    /\ "features" \in DOMAIN documents[1].obj \cap DOMAIN documents[2].obj
    /\ documents[1].obj.features # documents[2].obj.features
    /\ model_files[1] # model_files[2]

\* C16 (hash binds exactly the canonical fields): two model documents get
\* the same digest exactly when their projections to the five fields are
\* identical; a change of a leaf value, a threshold, the order of nodes, the
\* order or the number of trees changes the digest, the key order of the
\* objects of the file does not.
C16_HashBindsCanonicalFields ==
    BothHashed
        => (model_hashes[1] = model_hashes[2]
                <=> Projection(documents[1]) = Projection(documents[2]))

\* C16's case: two hashed documents that differ in nothing but one leaf value,
\* by one unit.
C16_Witness ==
    /\ BothHashed
    /\ documents[1].obj.trees = JArr(<<TreeJson(SampleNodes, 1000000)>>)
    /\ documents[2].obj.trees =
           JArr(<<TreeJson([SampleNodes EXCEPT ![2].leaf = <<100001>>],
                           1000000)>>)
    /\ documents[1].obj.bias = documents[2].obj.bias
    /\ model_hashes[1] # model_hashes[2]

\* The trained ensemble has no trees.
EnsembleEmpty == Get(raw, "tree_info", <<>>) = <<>>

\* C14 (non-empty ensemble): the model file never holds a document whose
\* trees list is empty; for an ensemble without trees the assembly aborts:
\* no model file is written and no digest is computed.
C14_NonEmptyEnsemble ==
    /\ output_file.exists => JsonLoad(output_file.bytes).obj.trees.arr # <<>>
    /\ EnsembleEmpty
           => /\ ~output_file.exists
              /\ model_hash = None
              /\ apc # "done"

BothSplit == val_masks[1].done /\ val_masks[2].done

\* C17 (split stability): a row with the same identity key in two datasets,
\* whatever its position and whatever the other rows, is assigned to the
\* same partition in both.
C17_SplitStability ==
    BothSplit
        => \A i \in DOMAIN dfs[1].rows, j \in DOMAIN dfs[2].rows :
               row_key(dfs[1], i) = row_key(dfs[2], j)
                   => val_masks[1].mask[i] = val_masks[2].mask[j]

\* C17's case: a validation row that is the only row of one dataset and the
\* second row of the other, after a different row.
C17_Witness ==
    /\ BothSplit
    /\ Len(dfs[1].rows) = 1
    /\ Len(dfs[2].rows) = 2
    /\ row_key(dfs[1], 1) = row_key(dfs[2], 2)
    /\ row_key(dfs[2], 1) # row_key(dfs[2], 2)
    /\ val_masks[1].mask[1]
    /\ ~val_masks[2].mask[1]

\* The pin record holds the candidate's digest, ignoring case.
PinnedIsCandidate ==
    LET pinned == PinDigests(before.config_file.lines)
    IN  /\ ValidInputs
        /\ pinned # {}
        /\ \A d \in pinned :
               Lower(d) = Lower(compute_blake3_hash(CandidateBytes))

\* The run ended because shutil.copy2 raised: an applied run with valid
\* inputs and a [dgbdt.model] section has no other way to exit with code 1.
CopyFailed ==
    /\ pc = "exit"
    /\ exit_code = 1
    /\ ~args.dry_run
    /\ ValidInputs
    /\ HasSection(before.config_file.lines)

\* C19 (guard override): when the pin record holds the candidate's digest and
\* --allow-same-hash is given, the run is not refused: it exits with code 0
\* (unless the copy itself fails) and, when applied, the destination holds
\* the candidate's bytes and the pin record has the destination as its path
\* and the candidate's digest as its digest.
C19_GuardOverride ==
    (PinnedIsCandidate /\ args.allow_same_hash /\ pc = "exit" /\ ~CopyFailed)
        => /\ exit_code = 0
           /\ ~args.dry_run
                  => /\ FsKey(args.runtime_dest, os) \in DOMAIN files
                     /\ files[FsKey(args.runtime_dest, os)] = CandidateBytes
                     /\ PinValues(config_file.lines, "path")
                            = {runtime_dest_str}
                     /\ \A d \in PinDigests(config_file.lines) :
                            Lower(d) = Lower(new_hash)
                     /\ PinDigests(config_file.lines) # {}

\* The pin record of the given lines has a key line named k.
HasPinKey(lines, k) == PinValues(lines, k) # {}

\* C20 (digest key name preservation): after an applied promotion the new
\* digest is under the key name the pin record used before: a record with
\* expected_hash and without hash_b3 has the new digest in expected_hash and
\* still no hash_b3 key, whatever its comments and other values say, and the
\* same with the two names exchanged; expected_hash appears anew only in a
\* record that had neither key.
C20_DigestKeyNamePreserved ==
    (pc = "exit" /\ exit_code = 0 /\ ~args.dry_run)
        => LET old == before.config_file.lines
               new == config_file.lines
           IN  /\ (HasPinKey(old, "expected_hash") /\ ~HasPinKey(old, "hash_b3"))
                      => /\ PinValues(new, "expected_hash") = {new_hash}
                         /\ ~HasPinKey(new, "hash_b3")
               /\ (HasPinKey(old, "hash_b3") /\ ~HasPinKey(old, "expected_hash"))
                      => /\ PinValues(new, "hash_b3") = {new_hash}
                         /\ ~HasPinKey(new, "expected_hash")
               /\ (HasPinKey(new, "expected_hash")
                       /\ ~HasPinKey(old, "expected_hash"))
                      => ~HasPinKey(old, "hash_b3")

\* The pin record exists and holds no digest under either key name.
NoPin ==
    /\ ValidInputs
    /\ HasSection(before.config_file.lines)
    /\ PinDigests(before.config_file.lines) = {}

\* C21 (first promotion without a pin): when [dgbdt.model] exists and has
\* neither an expected_hash nor a hash_b3 value, no guard comparison is made:
\* the run is never refused, it exits with code 0 (unless the copy itself
\* fails), and when applied the section ends with a path key and a digest
\* key that hold the candidate's values.
C21_FirstPromotionWithoutPin ==
    NoPin
        => /\ pc = "guard" \/ Proceeded \/ pc = "exit" => current_hash = None
           /\ pc = "exit" => exit_code # 2
           /\ (pc = "exit" /\ ~CopyFailed)
                  => /\ exit_code = 0
                     /\ ~args.dry_run
                            => /\ PinValues(config_file.lines, "path")
                                      = {runtime_dest_str}
                               /\ PinDigests(config_file.lines) = {new_hash}

\* The runtime destination holds the candidate's bytes.
Copied ==
    /\ FsKey(args.runtime_dest, os) \in DOMAIN files
    /\ files[FsKey(args.runtime_dest, os)] = CandidateBytes

\* C22 (copy before pin): in every state of an applied run, a config whose
\* pin record has been changed to hold the candidate's digest means that the
\* destination already holds the whole candidate file; and when the copy
\* failed the config is as it was.
C22_CopyBeforePin ==
    ~args.dry_run
        => /\ (/\ config_file.lines # before.config_file.lines
               /\ new_hash \in PinDigests(config_file.lines))
                  => Copied
           /\ CopyFailed => config_file = before.config_file

\* C22's case: an applied run has put the candidate's digest, which the pin
\* record did not hold, into the pin record.
C22_Witness ==
    /\ ~args.dry_run
    /\ pc = "exit"
    /\ exit_code = 0
    /\ new_hash \in PinDigests(config_file.lines)
    /\ new_hash \notin PinDigests(before.config_file.lines)
    /\ Copied

\* The number of nodes of an input tree.
RECURSIVE CountNodes(_)
CountNodes(t) ==
    1 + (IF "left_child" \in DOMAIN t THEN CountNodes(t.left_child) ELSE 0)
      + (IF "right_child" \in DOMAIN t THEN CountNodes(t.right_child) ELSE 0)

\* The indices of the subtree of the node at index i (0-based) of a node
\* array, following left and right for at most fuel steps.
RECURSIVE SubtreeIndices(_, _, _)
SubtreeIndices(nodes, i, fuel) ==
    IF i \notin 0..(Len(nodes) - 1) THEN {}
    ELSE IF ~IsInternal(nodes[i + 1]) \/ fuel = 0 THEN {i}
    ELSE {i} \cup SubtreeIndices(nodes, nodes[i + 1].left, fuel - 1)
             \cup SubtreeIndices(nodes, nodes[i + 1].right, fuel - 1)

\* The internal nodes of a node array that name index k as a child, each
\* with the side on which it does.
ParentsOf(nodes, k) ==
    {<<i, side>> \in (DOMAIN nodes) \X {"left", "right"} :
        /\ IsInternal(nodes[i])
        /\ IF side = "left" THEN nodes[i].left = k ELSE nodes[i].right = k}

\* C23 (flat array is the pre-order listing): the array returned for an input
\* tree has one entry per input node, nodes[k].id = k, nodes[0] is the
\* input root, every index but 0 is the left or right of exactly one
\* internal node, and the subtree of the node at index i is the index range
\* that starts at i.
C23_FlatArrayIsPreOrderListing ==
    (qpc = "done" /\ quantized.ok)
        => LET nodes == quantized.nodes
               n == Len(nodes)
           IN  /\ n = CountNodes(tree)
               /\ \A k \in 0..(n - 1) : nodes[k + 1].id = k
               /\ IsInternal(nodes[1]) = ("leaf_value" \notin DOMAIN tree)
               /\ \A k \in 1..(n - 1) : Cardinality(ParentsOf(nodes, k)) = 1
               /\ \A i \in 0..(n - 1) :
                      LET sub == SubtreeIndices(nodes, i, n)
                      IN  sub = i..(i + Cardinality(sub) - 1)

\* Some tree of the ensemble cannot be quantized.
SomeTreeFails ==
    LET tree_info == Get(raw, "tree_info", <<>>)
    IN  \E i \in DOMAIN tree_info :
            ~quantize_tree_structure(tree_info[i].tree_structure).ok

\* C24: when quantizing some tree of the ensemble fails, the run never comes
\* to write the model file, nor to compute or print a digest: it stops at
\* the failing tree.
C24_MalformedModelAbortsBeforeOutput ==
    (apc # "idle" /\ SomeTreeFails)
        => /\ apc \in {"trees", "raised"}
           /\ ~output_file.exists
           /\ output_file.bytes = <<>>
           /\ model_hash = None
           /\ bias = <<>>

\* The second tree failed after the first was assembled.
C24_Witness ==
    /\ apc = "raised"
    /\ Len(deterministic_trees) = 1
    /\ ~output_file.exists
    /\ model_hash = None

\* The 16-bit number of the first two bytes of the SHA-256 digest of a key,
\* the first byte being the high one.
BucketOf(key) == 256 * Sha256Head[key][1] + Sha256Head[key][2]

\* C25 (bucket rule): a row is a validation row exactly when the bucket of
\* its key is below 13107, the integer part of 0.2 * 65536; a row whose
\* bucket is 13107 is a training row.
C25_BucketRule ==
    \A d \in DOMAIN val_masks :
        val_masks[d].done
            => \A i \in DOMAIN dfs[d].rows :
                   /\ val_masks[d].mask[i]
                          = (BucketOf(val_masks[d].keys[i]) < 13107)
                   /\ BucketOf(val_masks[d].keys[i]) = 13107
                          => ~val_masks[d].mask[i]

\* C25's case: a split dataset with a row of bucket 13107, a training row,
\* and a row of bucket 13106, a validation row.
C25_Witness ==
    /\ val_masks[1].done
    /\ Len(dfs[1].rows) = 2
    /\ BucketOf(val_masks[1].keys[1]) = 13107
    /\ ~val_masks[1].mask[1]
    /\ BucketOf(val_masks[1].keys[2]) = 13106
    /\ val_masks[1].mask[2]

\* The columns a timestamp is taken from, in the order of preference.
TimestampColumns == <<"timestamp_utc", "hashtimer", "timestamp", "ts">>

\* The identity key of row i as C26 describes it.
IdentityKey(df, i) ==
    LET present == {k \in DOMAIN TimestampColumns :
                        TimestampColumns[k] \in df.cols}
        first == CHOOSE k \in present : \A m \in present : k <= m
        vid == IF "validator_id" \in df.cols THEN At(df, i, "validator_id")
               ELSE "na"
        rid == IF "round_id" \in df.cols THEN At(df, i, "round_id")
               ELSE "na"
    IN  IF present = {} THEN vid \o "|" \o rid
        ELSE vid \o "|" \o rid \o "|" \o At(df, i, TimestampColumns[first])

\* C26 (row identity key): the key of a row is its validator id, round
\* number and timestamp joined by "|", the timestamp being that of the first
\* present column of timestamp_utc, hashtimer, timestamp, ts; the key is id
\* and round alone only when none is present; a missing validator_id or
\* round_id column gives "na".
C26_RowIdentityKey ==
    \A d \in DOMAIN val_masks :
        val_masks[d].done
            => \A i \in DOMAIN dfs[d].rows :
                   val_masks[d].keys[i] = IdentityKey(dfs[d], i)

\* C26's case: split datasets, one with timestamp and ts but no round_id
\* column, the other with no timestamp column at all.
C26_Witness ==
    /\ BothSplit
    /\ dfs[1].cols = {"validator_id", "timestamp", "ts"}
    /\ dfs[2].cols = {"round_id"}
    /\ Len(dfs[1].rows) = 1
    /\ Len(dfs[2].rows) = 1
    /\ val_masks[1].keys[1] = "v1|na|" \o Timestamp
    /\ val_masks[2].keys[1] = "na|1"

\* The rows of a sequence of row indices.
RowsIn(X) == {X[k] : k \in DOMAIN X}

\* C30 (split is a partition by key): every row of the dataset is in exactly
\* one of the training set and the validation set, and two rows with the
\* same key are in the same set.
C30_SplitIsPartitionByKey ==
    \A d \in DOMAIN val_masks :
        val_masks[d].done
            => LET rows == DOMAIN dfs[d].rows
                   train == val_masks[d].X_train
                   val == val_masks[d].X_val
               IN  /\ RowsIn(train) \cup RowsIn(val) = rows
                   /\ RowsIn(train) \cap RowsIn(val) = {}
                   /\ Len(train) + Len(val) = Len(dfs[d].rows)
                   /\ \A i, j \in rows :
                          val_masks[d].keys[i] = val_masks[d].keys[j]
                              => /\ (i \in RowsIn(train)) = (j \in RowsIn(train))
                                 /\ (i \in RowsIn(val)) = (j \in RowsIn(val))

\* C30's case: a split dataset of two rows with one key, both validation
\* rows.
C30_Witness ==
    /\ val_masks[1].done
    /\ Len(dfs[1].rows) = 2
    /\ val_masks[1].keys[1] = val_masks[1].keys[2]
    /\ val_masks[1].X_val = <<1, 2>>
    /\ val_masks[1].X_train = <<>>

\* C27 (no best-effort digest): a model document that lacks one of version,
\* scale, trees, bias, post_scale gets no digest: the hasher fails, and does
\* not hash the fields that remain.
C27_NoBestEffortDigest ==
    \A i \in DOMAIN model_hashes :
        (model_hashes[i] # None
             /\ ~(ModelFields \subseteq DOMAIN documents[i].obj))
            => model_hashes[i] = KeyError

\* C27's case: the hasher has failed on a document without bias and has
\* given a digest to a complete one.
C27_Witness ==
    /\ "bias" \notin DOMAIN documents[1].obj
    /\ ModelFields \ {"bias"} \subseteq DOMAIN documents[1].obj
    /\ model_hashes[1] = KeyError
    /\ ModelFields \subseteq DOMAIN documents[2].obj
    /\ model_hashes[2] \notin {None, KeyError}

\* The devnet dataset files of the directory, plain and compressed.
DevnetDatasets ==
    {n \in data_dir.names :
        n.prefix = "devnet_dataset_" /\ n.suffix \in {".csv", ".csv.gz"}}

\* C28 (dataset discovery): _pick_latest_dataset_file returns the devnet
\* dataset file with the greatest timestamp among the .csv.gz and the .csv
\* files together, and raises FileNotFoundError when the directory does not
\* exist or holds no such file.
C28_DatasetDiscovery ==
    csv_path.state \notin {"idle", "call"}
        => IF ~data_dir.exists \/ DevnetDatasets = {}
           THEN csv_path.state = "FileNotFoundError"
           ELSE /\ csv_path.state = "returned"
                /\ csv_path.path[1] \in DevnetDatasets
                /\ \A n \in DevnetDatasets :
                       n.stamp <= csv_path.path[1].stamp

\* C29 (re-promotion is refused): after an applied promotion has exited with
\* code 0, the pinned digest the next run reads from the config is the
\* candidate's, so that promoting the same candidate again without
\* --allow-same-hash is refused with code 2; for every config that had a
\* [dgbdt.model] section.
C29_RepromotionRefused ==
    (pc = "exit" /\ exit_code = 0 /\ ~args.dry_run
         /\ HasSection(before.config_file.lines))
        => LET next_current_hash == extract_hash_from_config(config_file.lines)
           IN  /\ next_current_hash # None
               /\ Lower(next_current_hash) = Lower(new_hash)

====
